---- MODULE Spec2Model ----
(***************************************************************************)
(* prom_posture.py: the Sysdig posture exporter.                           *)
(*                                                                         *)
(* __main__ loads and validates the configuration, writes the bearer       *)
(* token into the module-level auth_header, registers a Collector and      *)
(* starts the exposition server.  Every scrape runs Collector.collect on   *)
(* a server thread: sysdig_request (a retrying GET with exponential        *)
(* backoff), response.json(), then one pass over zones and policies that   *)
(* adds samples to eight gauge families, which are yielded at the end.     *)
(*                                                                         *)
(* Three specifications share the actions below:                           *)
(*   Spec         the program: startup, then concurrent scrapes;           *)
(*   SpecFetch    one call of sysdig_request, its keyword arguments drawn  *)
(*                from small sets;                                         *)
(*   SpecCollect  one scrape from the moment sysdig_request has returned   *)
(*                a 2xx response, the document, the clock and the          *)
(*                threshold drawn from small sets.                         *)
(***************************************************************************)
EXTENDS Integers, Sequences, FiniteSets, TLC

VARIABLES
    mainpc,         \* position of __main__
    config,         \* obj_config: [apiToken, noDataThresholdHours]
    auth_header,    \* auth_header["Authorization"], a sequence of words
    timeframe_seconds, \* Collector.timeframe_seconds (0 before __init__)
    pc,             \* per scrape thread: position in collect / sysdig_request
    args,           \* sysdig_request: [max_retries, base_delay, max_delay]
    retries,        \* sysdig_request: retries
    e,              \* sysdig_request: the local e ("None", or "unbound")
    response,       \* sysdig_request / collect: the Response object
    attempts,       \* number of requests.request calls of the current call
    sleeps,         \* the time.sleep delays of the current call, in order
    sentAuth,       \* Authorization header sent with the requests of the call
    json_data,      \* collect: json_data
    current_timestamp, \* collect: current_timestamp
    zi, pi,         \* collect: position of the two for loops
    youngest_date,  \* collect: youngest_date (0 while unset)
    youngest_data,  \* collect: youngest_data
    families,       \* collect: the eight GaugeMetricFamily objects
    yielded,        \* the families the generator has yielded, in order
    error           \* the exception that left collect / sysdig_request

mainVars == <<mainpc, config, auth_header, timeframe_seconds>>
fetchVars == <<args, retries, e, response, attempts, sleeps, sentAuth>>
collectVars ==
    <<json_data, current_timestamp, zi, pi, youngest_date, youngest_data, families,
      yielded>>
vars == <<mainVars, pc, fetchVars, collectVars, error>>

None == "None"

Threads == {"t1", "t2"}

----------------------------------------------------------------------------
(* Python's int(str) and str(int) on date strings.  A string is a sequence *)
(* of one-character strings.                                               *)

Digits == <<"0", "1", "2", "3", "4", "5", "6", "7", "8", "9">>

DigitChar(d) == Digits[d + 1]

DigitVal(c) == CHOOSE d \in 0..9 : Digits[d + 1] = c

IsDigit(c) == \E d \in 0..9 : Digits[d + 1] = c

IsSpace(c) == c = " "

RECURSIVE LStrip(_)
LStrip(s) == IF s # <<>> /\ IsSpace(Head(s)) THEN LStrip(Tail(s)) ELSE s

RECURSIVE RStrip(_)
RStrip(s) ==
    IF s # <<>> /\ IsSpace(s[Len(s)]) THEN RStrip(SubSeq(s, 1, Len(s) - 1)) ELSE s

RECURSIVE DigitsValue(_, _)
DigitsValue(s, acc) ==
    IF s = <<>> THEN acc ELSE DigitsValue(Tail(s), 10 * acc + DigitVal(Head(s)))

\* int(s) is defined (no ValueError): optional whitespace, optional sign, digits
Parses(s) ==
    LET t == RStrip(LStrip(s))
        u == IF t # <<>> /\ Head(t) \in {"+", "-"} THEN Tail(t) ELSE t
    IN  u # <<>> /\ \A i \in 1..Len(u) : IsDigit(u[i])

PyInt(s) ==
    LET t == RStrip(LStrip(s))
        neg == t # <<>> /\ Head(t) = "-"
        u == IF t # <<>> /\ Head(t) \in {"+", "-"} THEN Tail(t) ELSE t
    IN  IF neg THEN 0 - DigitsValue(u, 0) ELSE DigitsValue(u, 0)

RECURSIVE NatStr(_)
NatStr(n) ==
    IF n < 10 THEN <<DigitChar(n)>> ELSE NatStr(n \div 10) \o <<DigitChar(n % 10)>>

PyStr(n) == IF n < 0 THEN <<"-">> \o NatStr(0 - n) ELSE NatStr(n)

Min(a, b) == IF a <= b THEN a ELSE b

RECURSIVE Pow2(_)
Pow2(n) == IF n = 0 THEN 1 ELSE 2 * Pow2(n - 1)

----------------------------------------------------------------------------
(* sysdig_request                                                          *)

DefaultMaxRetries == 5
DefaultBaseDelay == 5
DefaultMaxDelay == 60

DefaultArgs ==
    [max_retries |-> DefaultMaxRetries, base_delay |-> DefaultBaseDelay,
     max_delay |-> DefaultMaxDelay]

\* the keyword arguments SpecFetch calls sysdig_request with
ArgChoices ==
    {[max_retries |-> m, base_delay |-> b, max_delay |-> d] :
        m \in {0, 2, DefaultMaxRetries}, b \in {3, DefaultBaseDelay},
        d \in {10, DefaultMaxDelay}}

\* a document without zones; also the value of an unset json_data
NoDocument == [data |-> <<>>]

\* a Response: status_code (0 for None), what _content holds, and what .json()
\* parses from it when it is a document
NoResponse == [status |-> 0, content |-> "unset", json |-> NoDocument]

\* requests.Response(): no status, no body
EmptyResponse == [status |-> 0, content |-> "empty", json |-> NoDocument]

NoArgs == [max_retries |-> 0, base_delay |-> 0, max_delay |-> 0]

NoHeader == <<"unset">>

\* the backoff without its cap
DelayUncapped(a, r) == a.base_delay * Pow2(r)

\* line 234
Delay(a, r) == Min(a.base_delay * Pow2(r), a.max_delay)

\* lines 219-227: the call, up to the first test of the while loop
Call(t, a) ==
    /\ args' = [args EXCEPT ![t] = a]
    /\ retries' = [retries EXCEPT ![t] = 0]
    /\ e' = [e EXCEPT ![t] = None]
    /\ response' = [response EXCEPT ![t] = EmptyResponse]
    /\ attempts' = [attempts EXCEPT ![t] = 0]
    /\ sleeps' = [sleeps EXCEPT ![t] = <<>>]
    /\ sentAuth' = [sentAuth EXCEPT ![t] = NoHeader]
    /\ pc' = [pc EXCEPT ![t] = "while"]

\* line 228: while retries <= max_retries
While(t) ==
    /\ pc[t] = "while"
    /\ pc' = [pc EXCEPT ![t] =
                IF retries[t] <= args[t].max_retries THEN "request" ELSE "exhausted"]
    /\ UNCHANGED <<mainVars, fetchVars, collectVars, error>>

\* lines 230-232: the request answers 2xx with the document d; return response
RequestOk(t, d) ==
    /\ pc[t] = "request"
    /\ attempts' = [attempts EXCEPT ![t] = @ + 1]
    /\ sentAuth' = [sentAuth EXCEPT ![t] = auth_header]
    /\ response' = [response EXCEPT ![t] = [status |-> 200, content |-> "document", json |-> d]]
    /\ pc' = [pc EXCEPT ![t] = "returned"]
    /\ UNCHANGED <<mainVars, args, retries, e, sleeps, collectVars, error>>

\* line 230 raises (connection error, timeout): response is not assigned
RequestRaises(t) ==
    /\ pc[t] = "request"
    /\ attempts' = [attempts EXCEPT ![t] = @ + 1]
    /\ sentAuth' = [sentAuth EXCEPT ![t] = auth_header]
    /\ e' = [e EXCEPT ![t] = "RequestException"]
    /\ pc' = [pc EXCEPT ![t] = "except"]
    /\ UNCHANGED <<mainVars, args, retries, response, sleeps, collectVars, error>>

\* line 230 answers with an error status, line 231 raise_for_status raises
RequestHttpError(t, status) ==
    /\ pc[t] = "request"
    /\ attempts' = [attempts EXCEPT ![t] = @ + 1]
    /\ sentAuth' = [sentAuth EXCEPT ![t] = auth_header]
    /\ response' = [response EXCEPT ![t] = [status |-> status, content |-> "error page", json |-> NoDocument]]
    /\ e' = [e EXCEPT ![t] = "RequestException"]
    /\ pc' = [pc EXCEPT ![t] = "except"]
    /\ UNCHANGED <<mainVars, args, retries, sleeps, collectVars, error>>

\* lines 233-238: the except clause; leaving it unbinds its target e
Except(t) ==
    /\ pc[t] = "except"
    /\ sleeps' = [sleeps EXCEPT ![t] = Append(@, Delay(args[t], retries[t]))]
    /\ retries' = [retries EXCEPT ![t] = @ + 1]
    /\ e' = [e EXCEPT ![t] = "unbound"]
    /\ pc' = [pc EXCEPT ![t] = "while"]
    /\ UNCHANGED <<mainVars, args, response, attempts, sentAuth, collectVars, error>>

\* lines 239-244: line 241 reads e; then the 503 response is returned
Exhausted(t) ==
    /\ pc[t] = "exhausted"
    /\ IF e[t] = "unbound"
       THEN /\ error' = [error EXCEPT ![t] = "UnboundLocalError"]
            /\ pc' = [pc EXCEPT ![t] = "raised"]
            /\ UNCHANGED response
       ELSE /\ response' = [response EXCEPT ![t] =
                               [status |-> 503, json |-> NoDocument,
                                content |-> "Service is unavailable after retries."]]
            /\ pc' = [pc EXCEPT ![t] = "returned"]
            /\ UNCHANGED error
    /\ UNCHANGED <<mainVars, args, retries, e, attempts, sleeps, sentAuth, collectVars>>

----------------------------------------------------------------------------
(* The posture document (the JSON body of a 2xx answer)                     *)

ZoneNames == <<"zoneA", "zoneB">>
PolicyNames == <<"policyA", "policyB">>

\* date strings: canonical ones, and others int() accepts
d100 == <<"1", "0", "0">>
d200 == <<"2", "0", "0">>
d0200 == <<"0", "2", "0", "0">>
dSpPlus200 == <<" ", "+", "2", "0", "0">>

DateStrings == {d100, d200, d0200, dSpPlus200}

\* longest requirementsHistory of the documents of SpecCollect
MaxHistory == 2

\* policies per zone, zone by zone, of the documents of SpecCollect
Shapes == {<<>>, <<0>>, <<1>>, <<2>>, <<0, 1>>}

\* every number of a document is different from every other one of it
Requirement(base, date, h) ==
    [date |-> date,
     requirementPassingScore |-> base + 10 * h + 1,
     failedRequirements |-> base + 10 * h + 2,
     evaluatedResources |-> base + 10 * h + 3]

Policy(z, p, dates) ==
    LET base == 1000 * z + 100 * p
    IN  [name |-> PolicyNames[p],
         failedControls |-> base + 4,
         resourcePassingScore |-> base + 5,
         resourceViolationSummary |->
             [highSeverity |-> base + 6, mediumSeverity |-> base + 7,
              lowSeverity |-> base + 8],
         requirementsHistory |->
             [h \in 1..Len(dates) |-> Requirement(base, dates[h], h)]]

Histories(n) == UNION {[1..k -> DateStrings] : k \in 0..n}

Slots(shape) ==
    {zp \in (1..Len(shape)) \X (1..Len(PolicyNames)) : zp[2] <= shape[zp[1]]}

DocumentsOf(shape, hs) ==
    {[data |-> [z \in 1..Len(shape) |->
                    [zoneName |-> ZoneNames[z],
                     policies |-> [p \in 1..shape[z] |-> Policy(z, p, f[<<z, p>>])]]]] :
        f \in [Slots(shape) -> hs]}

Documents == UNION {DocumentsOf(shape, Histories(MaxHistory)) : shape \in Shapes}

\* the documents the API serves in Spec
SmallDocuments ==
    UNION {DocumentsOf(shape, {<<>>, <<d100>>, <<d100, d200>>, <<d0200>>}) :
              shape \in {<<>>, <<1>>}}

----------------------------------------------------------------------------
(* Collector                                                               *)

\* the clock readings of line 105
Nows == {3700, 3701}

\* config.noDataThresholdHours of SpecCollect
HoursChoices == {1}

\* line 71
CollectorInit(hours_threshold) == hours_threshold * 60 * 60

SetMax(S) == CHOOSE m \in S : \A x \in S : x <= m

\* line 81, for a non-empty history
get_youngest_date(requirements_history) ==
    SetMax({PyInt(requirements_history[i].date) : i \in 1..Len(requirements_history)})

\* youngest_data = None (line 160)
NoRequirement ==
    [date |-> <<>>, requirementPassingScore |-> 0, failedRequirements |-> 0,
     evaluatedResources |-> 0]

\* lines 160-167: the first requirement whose date string is str(youngest_date)
YoungestData(requirements_history, youngest) ==
    LET hits == {i \in 1..Len(requirements_history) :
                    requirements_history[i].date = PyStr(youngest)}
    IN  IF hits = {} THEN NoRequirement
        ELSE requirements_history[CHOOSE i \in hits : \A j \in hits : i <= j]

\* the staleness check left out
FreshNoCheck(now, youngest, timeframe) == TRUE

\* line 169
Fresh(now, youngest, timeframe) == now - youngest <= timeframe

GaugeNames ==
    <<"g_passing_requirements", "g_failed_requirements", "g_evaluated_resources",
      "g_failed_controls", "g_passing_resources", "g_high_severity",
      "g_medium_severity", "g_low_severity">>

\* lines 107-153: eight families without samples
NewGauges == [g \in {GaugeNames[i] : i \in 1..Len(GaugeNames)} |-> <<>>]

\* GaugeMetricFamily.add_metric(labels, value)
add_metric(samples, labels, value) == Append(samples, [labels |-> labels, value |-> value])

\* lines 170-206
AddMetrics(g, zone_data, policy_data, requirement) ==
    LET labels == <<zone_data.zoneName, policy_data.name>>
    IN  [g EXCEPT
          !["g_passing_requirements"] =
              add_metric(@, labels, requirement.requirementPassingScore),
          !["g_failed_requirements"] =
              add_metric(@, labels, requirement.failedRequirements),
          !["g_evaluated_resources"] =
              add_metric(@, labels, requirement.evaluatedResources),
          !["g_failed_controls"] = add_metric(@, labels, policy_data.failedControls),
          !["g_passing_resources"] =
              add_metric(@, labels, policy_data.resourcePassingScore),
          !["g_high_severity"] =
              add_metric(@, labels, policy_data.resourceViolationSummary.highSeverity),
          !["g_medium_severity"] =
              add_metric(@, labels, policy_data.resourceViolationSummary.mediumSeverity),
          !["g_low_severity"] =
              add_metric(@, labels, policy_data.resourceViolationSummary.lowSeverity)]

\* the locals of a thread that is not in collect
ClearFetch(t) ==
    /\ args' = [args EXCEPT ![t] = NoArgs]
    /\ retries' = [retries EXCEPT ![t] = 0]
    /\ e' = [e EXCEPT ![t] = None]
    /\ attempts' = [attempts EXCEPT ![t] = 0]
    /\ sleeps' = [sleeps EXCEPT ![t] = <<>>]
    /\ sentAuth' = [sentAuth EXCEPT ![t] = NoHeader]

ClearCollect(t) ==
    /\ json_data' = [json_data EXCEPT ![t] = NoDocument]
    /\ current_timestamp' = [current_timestamp EXCEPT ![t] = 0]
    /\ zi' = [zi EXCEPT ![t] = 0]
    /\ pi' = [pi EXCEPT ![t] = 0]
    /\ youngest_date' = [youngest_date EXCEPT ![t] = 0]
    /\ youngest_data' = [youngest_data EXCEPT ![t] = NoRequirement]
    /\ families' = [families EXCEPT ![t] = NewGauges]
    /\ yielded' = [yielded EXCEPT ![t] = <<>>]

\* lines 93-99: a scrape request arrives; collect calls sysdig_request
Scrape(t) ==
    /\ mainpc = "serving"
    /\ pc[t] = "idle"
    /\ Call(t, DefaultArgs)
    /\ UNCHANGED <<mainVars, collectVars, error>>

\* json_data kept in one place for all invocations, not in a local
JsonShared(t) ==
    /\ pc[t] = "returned"
    /\ IF response[t].content = "document"
       THEN /\ json_data' = [u \in Threads |-> response[t].json]
            /\ pc' = [pc EXCEPT ![t] = "setup"]
            /\ UNCHANGED error
       ELSE /\ error' = [error EXCEPT ![t] = "JSONDecodeError"]
            /\ pc' = [pc EXCEPT ![t] = "raised"]
            /\ UNCHANGED json_data
    /\ ClearFetch(t)
    /\ UNCHANGED <<mainVars, response, current_timestamp, zi, pi, youngest_date,
                   youngest_data, families, yielded>>

\* line 99: sysdig_request has returned; .json() parses the body
Json(t) ==
    /\ pc[t] = "returned"
    /\ IF response[t].content = "document"
       THEN /\ json_data' = [json_data EXCEPT ![t] = response[t].json]
            /\ pc' = [pc EXCEPT ![t] = "setup"]
            /\ UNCHANGED error
       ELSE /\ error' = [error EXCEPT ![t] = "JSONDecodeError"]
            /\ pc' = [pc EXCEPT ![t] = "raised"]
            /\ UNCHANGED json_data
    /\ ClearFetch(t)
    /\ UNCHANGED <<mainVars, response, current_timestamp, zi, pi, youngest_date,
                   youngest_data, families, yielded>>

\* lines 102-154: the clock is read, the gauge families are built
SetupGauges(t, now) ==
    /\ pc[t] = "setup"
    /\ current_timestamp' = [current_timestamp EXCEPT ![t] = now]
    /\ families' = [families EXCEPT ![t] = NewGauges]
    /\ zi' = [zi EXCEPT ![t] = 0]
    /\ pi' = [pi EXCEPT ![t] = 0]
    /\ pc' = [pc EXCEPT ![t] = "for_zone"]
    /\ UNCHANGED <<mainVars, fetchVars, json_data, youngest_date, youngest_data,
                   yielded, error>>

\* line 156: the next zone, or the end of the loop
ForZone(t) ==
    /\ pc[t] = "for_zone"
    /\ IF zi[t] < Len(json_data[t].data)
       THEN /\ zi' = [zi EXCEPT ![t] = @ + 1]
            /\ pi' = [pi EXCEPT ![t] = 0]
            /\ pc' = [pc EXCEPT ![t] = "for_policy"]
       ELSE /\ pc' = [pc EXCEPT ![t] = "yield"]
            /\ UNCHANGED <<zi, pi>>
    /\ UNCHANGED <<mainVars, fetchVars, json_data, current_timestamp, youngest_date,
                   youngest_data, families, yielded, error>>

\* line 157: the policies of the zone are exhausted
PoliciesDone(t) ==
    /\ pc[t] = "for_policy"
    /\ pi[t] >= Len(json_data[t].data[zi[t]].policies)
    /\ pc' = [pc EXCEPT ![t] = "for_zone"]
    /\ UNCHANGED <<mainVars, fetchVars, collectVars, error>>

\* lines 157-206: the next policy of the zone and the body of the loop
PolicyBody(t) ==
    /\ pc[t] = "for_policy"
    /\ pi[t] < Len(json_data[t].data[zi[t]].policies)
    /\ LET zone_data == json_data[t].data[zi[t]]
           policy_data == zone_data.policies[pi[t] + 1]
           history == policy_data.requirementsHistory
       IN  /\ pi' = [pi EXCEPT ![t] = @ + 1]
           /\ IF history = <<>> \/ \E i \in 1..Len(history) : ~Parses(history[i].date)
              THEN \* line 81: max() of an empty list, or int() of no number
                   /\ error' = [error EXCEPT ![t] = "ValueError"]
                   /\ pc' = [pc EXCEPT ![t] = "raised"]
                   /\ UNCHANGED <<youngest_date, youngest_data, families>>
              ELSE LET date == get_youngest_date(history)
                       data == YoungestData(history, date)
                   IN  /\ youngest_date' = [youngest_date EXCEPT ![t] = date]
                       /\ youngest_data' = [youngest_data EXCEPT ![t] = data]
                       /\ IF ~Fresh(current_timestamp[t], date, timeframe_seconds)
                          THEN UNCHANGED <<families, pc, error>>
                          ELSE IF data = NoRequirement
                          THEN \* line 172: None is not subscriptable
                               /\ error' = [error EXCEPT ![t] = "TypeError"]
                               /\ pc' = [pc EXCEPT ![t] = "raised"]
                               /\ UNCHANGED families
                          ELSE /\ families' = [families EXCEPT ![t] =
                                      AddMetrics(@, zone_data, policy_data, data)]
                               /\ UNCHANGED <<pc, error>>
    /\ UNCHANGED <<mainVars, fetchVars, json_data, current_timestamp, zi, yielded>>

\* lines 207-216: the eight families are yielded
Yield(t) ==
    /\ pc[t] = "yield"
    /\ yielded' = [yielded EXCEPT ![t] = GaugeNames]
    /\ pc' = [pc EXCEPT ![t] = "exposed"]
    /\ UNCHANGED <<mainVars, fetchVars, json_data, current_timestamp, zi, pi,
                   youngest_date, youngest_data, families, error>>

\* the exposition server has answered the scrape; the thread is free again
Finish(t) ==
    /\ pc[t] \in {"exposed", "raised"}
    /\ pc' = [pc EXCEPT ![t] = "idle"]
    /\ response' = [response EXCEPT ![t] = NoResponse]
    /\ error' = [error EXCEPT ![t] = None]
    /\ ClearFetch(t)
    /\ ClearCollect(t)
    /\ UNCHANGED mainVars

----------------------------------------------------------------------------
(* __main__                                                                *)

Configs == {[apiToken |-> tok, noDataThresholdHours |-> h] :
               tok \in {"", "tokA"}, h \in {0, 1}}

\* lines 42-64, for the two keys that are modelled
ConfigValid(c) == c.apiToken # "" /\ c.noDataThresholdHours # 0

Bearer(c) == <<"Bearer", c.apiToken>>

\* lines 248-253
ValidateConfig ==
    /\ mainpc = "load"
    /\ mainpc' = IF ConfigValid(config) THEN "validated" ELSE "exit"
    /\ UNCHANGED <<config, auth_header, timeframe_seconds, pc, fetchVars,
                   collectVars, error>>

\* lines 255-261
SetAuthorization ==
    /\ mainpc = "validated"
    /\ auth_header' = Bearer(config)
    /\ mainpc' = "authorized"
    /\ UNCHANGED <<config, timeframe_seconds, pc, fetchVars, collectVars, error>>

\* lines 264-267
Register ==
    /\ mainpc = "authorized"
    /\ timeframe_seconds' = CollectorInit(config.noDataThresholdHours)
    /\ mainpc' = "registered"
    /\ UNCHANGED <<config, auth_header, pc, fetchVars, collectVars, error>>

\* lines 269-276
StartServer ==
    /\ mainpc = "registered"
    /\ mainpc' = "serving"
    /\ UNCHANGED <<config, auth_header, timeframe_seconds, pc, fetchVars,
                   collectVars, error>>

----------------------------------------------------------------------------
(* Specifications                                                          *)

IdleThreads ==
    /\ pc = [t \in Threads |-> "idle"]
    /\ args = [t \in Threads |-> NoArgs]
    /\ retries = [t \in Threads |-> 0]
    /\ e = [t \in Threads |-> None]
    /\ response = [t \in Threads |-> NoResponse]
    /\ attempts = [t \in Threads |-> 0]
    /\ sleeps = [t \in Threads |-> <<>>]
    /\ sentAuth = [t \in Threads |-> NoHeader]
    /\ json_data = [t \in Threads |-> NoDocument]
    /\ current_timestamp = [t \in Threads |-> 0]
    /\ zi = [t \in Threads |-> 0]
    /\ pi = [t \in Threads |-> 0]
    /\ youngest_date = [t \in Threads |-> 0]
    /\ youngest_data = [t \in Threads |-> NoRequirement]
    /\ families = [t \in Threads |-> NewGauges]
    /\ yielded = [t \in Threads |-> <<>>]
    /\ error = [t \in Threads |-> None]

Init ==
    /\ mainpc = "load"
    /\ config \in Configs
    /\ auth_header = <<>>
    /\ timeframe_seconds = 0
    /\ IdleThreads

HttpErrors == {429, 500}

Next ==
    \/ ValidateConfig
    \/ SetAuthorization
    \/ Register
    \/ StartServer
    \/ \E t \in Threads : Scrape(t)
    \/ \E t \in Threads : While(t)
    \/ \E t \in Threads : \E d \in SmallDocuments : RequestOk(t, d)
    \/ \E t \in Threads : RequestRaises(t)
    \/ \E t \in Threads : \E st \in HttpErrors : RequestHttpError(t, st)
    \/ \E t \in Threads : Except(t)
    \/ \E t \in Threads : Exhausted(t)
    \/ \E t \in Threads : Json(t)
    \/ \E t \in Threads : \E now \in Nows : SetupGauges(t, now)
    \/ \E t \in Threads : ForZone(t)
    \/ \E t \in Threads : PoliciesDone(t)
    \/ \E t \in Threads : PolicyBody(t)
    \/ \E t \in Threads : Yield(t)
    \/ \E t \in Threads : Finish(t)

Spec == Init /\ [][Next]_vars

\* the state once the server is up, for the configuration c
Serving(c) ==
    /\ mainpc = "serving"
    /\ config = c
    /\ auth_header = Bearer(c)
    /\ timeframe_seconds = CollectorInit(c.noDataThresholdHours)

InitFetch ==
    /\ Serving([apiToken |-> "tokA", noDataThresholdHours |-> 1])
    /\ IdleThreads

CallFetch ==
    /\ pc["t1"] = "idle"
    /\ \E a \in ArgChoices : Call("t1", a)
    /\ UNCHANGED <<mainVars, collectVars, error>>

NextFetch ==
    \/ CallFetch
    \/ While("t1")
    \/ \E d \in SmallDocuments : RequestOk("t1", d)
    \/ RequestRaises("t1")
    \/ \E st \in HttpErrors : RequestHttpError("t1", st)
    \/ Except("t1")
    \/ Exhausted("t1")

SpecFetch == InitFetch /\ [][NextFetch]_vars

\* sysdig_request has just returned a 2xx answer to collect, after one attempt
InitCollect ==
    /\ \E h \in HoursChoices : Serving([apiToken |-> "tokA", noDataThresholdHours |-> h])
    /\ \E d \in Documents :
          response = [t \in Threads |->
                         IF t = "t1"
                         THEN [status |-> 200, content |-> "document", json |-> d]
                         ELSE NoResponse]
    /\ pc = [t \in Threads |-> IF t = "t1" THEN "returned" ELSE "idle"]
    /\ args = [t \in Threads |-> IF t = "t1" THEN DefaultArgs ELSE NoArgs]
    /\ retries = [t \in Threads |-> 0]
    /\ e = [t \in Threads |-> None]
    /\ attempts = [t \in Threads |-> IF t = "t1" THEN 1 ELSE 0]
    /\ sleeps = [t \in Threads |-> <<>>]
    /\ sentAuth = [t \in Threads |-> IF t = "t1" THEN auth_header ELSE NoHeader]
    /\ json_data = [t \in Threads |-> NoDocument]
    /\ current_timestamp = [t \in Threads |-> 0]
    /\ zi = [t \in Threads |-> 0]
    /\ pi = [t \in Threads |-> 0]
    /\ youngest_date = [t \in Threads |-> 0]
    /\ youngest_data = [t \in Threads |-> NoRequirement]
    /\ families = [t \in Threads |-> NewGauges]
    /\ yielded = [t \in Threads |-> <<>>]
    /\ error = [t \in Threads |-> None]

NextCollect ==
    \/ Json("t1")
    \/ \E now \in Nows : SetupGauges("t1", now)
    \/ ForZone("t1")
    \/ PoliciesDone("t1")
    \/ PolicyBody("t1")
    \/ Yield("t1")

SpecCollect == InitCollect /\ [][NextCollect]_vars

----------------------------------------------------------------------------
(* What the claims speak of                                                *)

GaugeSet == {GaugeNames[i] : i \in 1..Len(GaugeNames)}

\* the (zone, policy) positions of a document
PolicySlots(doc) ==
    UNION {{<<z, p>> : p \in 1..Len(doc.data[z].policies)} : z \in 1..Len(doc.data)}

PolicyAt(doc, zp) == doc.data[zp[1]].policies[zp[2]]

LabelsAt(doc, zp) == <<doc.data[zp[1]].zoneName, PolicyAt(doc, zp).name>>

\* youngestDate of the claims: the maximum integer date of a non-empty history
MaxIntDate(history) ==
    LET ds == {PyInt(history[i].date) : i \in 1..Len(history)}
    IN  CHOOSE m \in ds : \A x \in ds : x <= m

\* the first entry, in sequence order, whose integer date is maximal
CurrentRequirement(history) ==
    LET top == {i \in 1..Len(history) : PyInt(history[i].date) = MaxIntDate(history)}
    IN  history[CHOOSE i \in top : \A j \in top : i <= j]

\* now - youngestDate > thresholdSeconds, thresholdSeconds = hours * 3600
IsStale(policy, now, hours) ==
    /\ policy.requirementsHistory # <<>>
    /\ now - MaxIntDate(policy.requirementsHistory) > hours * 3600

IsFresh(policy, now, hours) ==
    /\ policy.requirementsHistory # <<>>
    /\ now - MaxIntDate(policy.requirementsHistory) <= hours * 3600

\* the samples of one family that carry the label pair
SamplesOf(samples, labels) == {i \in 1..Len(samples) : samples[i].labels = labels}

\* the value the spec maps to a family
SpecValue(g, policy) ==
    LET cur == CurrentRequirement(policy.requirementsHistory)
    IN  CASE g = "g_passing_requirements" -> cur.requirementPassingScore
          [] g = "g_failed_requirements" -> cur.failedRequirements
          [] g = "g_evaluated_resources" -> cur.evaluatedResources
          [] g = "g_failed_controls" -> policy.failedControls
          [] g = "g_passing_resources" -> policy.resourcePassingScore
          [] g = "g_high_severity" -> policy.resourceViolationSummary.highSeverity
          [] g = "g_medium_severity" -> policy.resourceViolationSummary.mediumSeverity
          [] g = "g_low_severity" -> policy.resourceViolationSummary.lowSeverity

\* the thread is in collect, after line 105 has read the clock
Projecting(t) == pc[t] \in {"for_zone", "for_policy", "yield", "exposed", "raised"}
                 /\ current_timestamp[t] # 0

\* the scrape of the thread is over: answered, or left by an exception
ScrapeOver(t) == pc[t] \in {"exposed", "raised"}

\* the pair has exactly one sample in each of the eight families
ReportedOnce(t, labels) ==
    \A g \in GaugeSet : Cardinality(SamplesOf(families[t][g], labels)) = 1

Hours == config.noDataThresholdHours

----------------------------------------------------------------------------
(* C1 *)

\* C1 (as claimed): for every reported zone/policy pair, the values of
\* passing_requirements, failed_requirements and evaluated_resources are those
\* of the first entry of requirementsHistory whose integer date is maximal.
C1_FromFirstMaxDateEntry ==
    \A t \in Threads :
        Projecting(t) =>
            \A zp \in PolicySlots(json_data[t]) :
                LET policy == PolicyAt(json_data[t], zp)
                    labels == LabelsAt(json_data[t], zp)
                IN  \A g \in {"g_passing_requirements", "g_failed_requirements",
                              "g_evaluated_resources"} :
                        \A i \in SamplesOf(families[t][g], labels) :
                            families[t][g][i].value = SpecValue(g, policy)

----------------------------------------------------------------------------
(* C2 *)

----------------------------------------------------------------------------
(* C3 *)

\* C3 (as claimed): in any scrape every pair with now - youngestDate <=
\* thresholdSeconds gets exactly one sample in each of the eight families,
\* labelled (zoneName, policyName) and with the value of the field the spec
\* names, and all eight families are yielded.
C3_FreshReported ==
    \A t \in Threads :
        (ScrapeOver(t) /\ Projecting(t)) =>
            /\ yielded[t] = GaugeNames
            /\ \A zp \in PolicySlots(json_data[t]) :
                  LET policy == PolicyAt(json_data[t], zp)
                      labels == LabelsAt(json_data[t], zp)
                  IN  IsFresh(policy, current_timestamp[t], Hours) =>
                          \A g \in GaugeSet :
                              \E i \in 1..Len(families[t][g]) :
                                  /\ SamplesOf(families[t][g], labels) = {i}
                                  /\ families[t][g][i].value = SpecValue(g, policy)

----------------------------------------------------------------------------
(* C4 *)

\* C4: a call whose first k attempts fail and whose attempt k+1 succeeds
\* (0 <= k <= max_retries) returns the 2xx response after exactly k+1 attempts
\* and exactly k sleeps, the i-th (from 0) of min(base_delay * 2^i, max_delay);
\* with the defaults and k = 4 the sleeps are 5, 10, 20, 40.
C4_RetryThenSuccess ==
    \A t \in Threads :
        (pc[t] = "returned" /\ response[t].status = 200) =>
            LET k == Len(sleeps[t])
            IN  /\ attempts[t] = k + 1
                /\ k <= args[t].max_retries
                /\ \A i \in 0..(k - 1) :
                      sleeps[t][i + 1] =
                          Min(args[t].base_delay * (2 ^ i), args[t].max_delay)
                /\ (args[t] = DefaultArgs /\ k = 4) => sleeps[t] = <<5, 10, 20, 40>>

\* four failures, then success, with the default arguments
C4_Witness ==
    /\ pc["t1"] = "returned"
    /\ response["t1"].status = 200
    /\ args["t1"] = DefaultArgs
    /\ attempts["t1"] = 5
    /\ Len(sleeps["t1"]) = 4

----------------------------------------------------------------------------
(* C5 *)

\* C5 (as claimed): a call all of whose attempts fail makes exactly
\* max_retries + 1 attempts and then returns a response of status 503; it does
\* not raise.
C5_ExhaustedReturns503 ==
    \A t \in Threads :
        (pc[t] \in {"returned", "raised"} /\ attempts[t] > 0 /\ response[t].status # 200) =>
            /\ pc[t] = "returned"
            /\ response[t].status = 503
            /\ attempts[t] = args[t].max_retries + 1

----------------------------------------------------------------------------
(* C6 *)

\* C6 (as claimed): no failure of the fetch leaves collect as an exception:
\* whatever the attempts did, the scrape is not ended by an error of
\* sysdig_request or of parsing its response.
C6_FetchErrorsContained ==
    \A t \in Threads :
        pc[t] = "raised" => error[t] \notin {"UnboundLocalError", "JSONDecodeError"}

----------------------------------------------------------------------------
(* C7 *)

\* C7 (as claimed): a policy with an empty requirementsHistory does not end
\* the scrape: the scrape is answered, and every fresh policy of the document,
\* before or after it, has its sample in each of the eight families.
C7_EmptyHistoryConfined ==
    \A t \in Threads :
        (/\ ScrapeOver(t) /\ Projecting(t)
         /\ \E zp \in PolicySlots(json_data[t]) :
               PolicyAt(json_data[t], zp).requirementsHistory = <<>>
         /\ error[t] # "TypeError") =>
            /\ pc[t] = "exposed"
            /\ \A zp \in PolicySlots(json_data[t]) :
                  IsFresh(PolicyAt(json_data[t], zp), current_timestamp[t], Hours) =>
                      ReportedOnce(t, LabelsAt(json_data[t], zp))

----------------------------------------------------------------------------
(* C9 *)

\* C9 (as claimed): sleeps happen only between attempts: a call that has made
\* n attempts and is over, or has left the loop, has slept n - 1 times.
C9_SleepOnlyBetweenAttempts ==
    \A t \in Threads :
        (pc[t] \in {"exhausted", "returned", "raised"} /\ attempts[t] > 0) =>
            Len(sleeps[t]) = attempts[t] - 1

----------------------------------------------------------------------------
(* C10 *)

\* C10 (as claimed): once the body of the loop has run for a policy with a
\* non-empty history that passes the staleness check, youngest_data is not
\* None, whatever form the date strings have.
C10_CurrentRequirementLocated ==
    \A t \in Threads :
        (pc[t] \in {"for_policy", "raised"} /\ pi[t] >= 1 /\ current_timestamp[t] # 0) =>
            LET policy == PolicyAt(json_data[t], <<zi[t], pi[t]>>)
            IN  IsFresh(policy, current_timestamp[t], Hours) =>
                    youngest_data[t] # NoRequirement

----------------------------------------------------------------------------
(* C8 *)

\* everything an invocation of collect (and its sysdig_request) holds
Locals(t) ==
    <<pc[t], args[t], retries[t], e[t], response[t], attempts[t], sleeps[t],
      sentAuth[t], json_data[t], current_timestamp[t], zi[t], pi[t],
      youngest_date[t], youngest_data[t], families[t], yielded[t], error[t]>>

\* the (zone, policy) positions of a document from zone z on, in document order
RECURSIVE SlotsFrom(_, _)
SlotsFrom(doc, z) ==
    IF z > Len(doc.data) THEN <<>>
    ELSE [p \in 1..Len(doc.data[z].policies) |-> <<z, p>>] \o SlotsFrom(doc, z + 1)

\* the families one pass over the positions builds from g
RECURSIVE ProjectFrom(_, _, _, _, _)
ProjectFrom(doc, slots, now, timeframe, g) ==
    IF slots = <<>> THEN g
    ELSE LET policy == PolicyAt(doc, Head(slots))
             history == policy.requirementsHistory
             date == get_youngest_date(history)
             keep == history # <<>> /\ Fresh(now, date, timeframe)
         IN  ProjectFrom(doc, Tail(slots), now, timeframe,
                 IF keep
                 THEN AddMetrics(g, doc.data[Head(slots)[1]], policy,
                                 YoungestData(history, date))
                 ELSE g)

\* the series a scrape returns are those of the document it fetched itself and
\* of its own clock reading
C8_OwnDocument ==
    \A t \in Threads :
        pc[t] \in {"yield", "exposed"} =>
            families[t] = ProjectFrom(response[t].json, SlotsFrom(response[t].json, 1),
                                      current_timestamp[t], timeframe_seconds, NewGauges)

\* a scrape sends the header written at startup
C8_HeaderBeforeScrape ==
    \A t \in Threads :
        pc[t] # "idle" =>
            /\ auth_header = Bearer(config)
            /\ sentAuth[t] \in {NoHeader, Bearer(config)}

\* C8: under any interleaving every step touches the locals of one invocation
\* at most, each invocation makes its own attempts, an answered scrape holds
\* the projection of the document it fetched itself at its own clock reading,
\* and the authorization header is written before the first scrape and never
\* after it.
C8_IndependentScrapes ==
    /\ [](C8_OwnDocument /\ C8_HeaderBeforeScrape)
    /\ [][\E t \in Threads : \A u \in Threads \ {t} : Locals(u)' = Locals(u)]_vars
    /\ [][\A t \in Threads :
            (pc[t] = "request" /\ pc'[t] # "request") => attempts'[t] = attempts[t] + 1]_vars
    /\ [][auth_header # <<>> => auth_header' = auth_header]_vars

\* one scrape is answered with samples while another, which fetched another
\* document, is still projecting it at another clock reading
C8_Witness ==
    /\ pc["t1"] = "exposed"
    /\ families["t1"]["g_passing_requirements"] # <<>>
    /\ pc["t2"] \in {"for_zone", "for_policy"}
    /\ json_data["t2"] # json_data["t1"]
    /\ current_timestamp["t2"] # current_timestamp["t1"]

====
